---- MODULE Spec2Model ----
(***************************************************************************)
(* The signing round of a FROST signer (frost-signer/src/signing_round.rs) *)
(* as a state machine: one step is one call of SigningRound::process.      *)
(*                                                                         *)
(* Values of the FROST library are abstract.  A polynomial is named by the *)
(* pair <<party, generation>>; a PolyCommitment is [poly, ok] (the         *)
(* polynomial committed to and whether its proof of knowledge verifies); a *)
(* private share is the name of the polynomial it was evaluated from; a    *)
(* nonce is <<party, draw number>>.                                        *)
(***************************************************************************)
EXTENDS Integers, Sequences, FiniteSets, TLC

\* ---------------------------------------------------------------- bounds
MaxTotal == 2      \* total parties of a configuration: 1..MaxTotal
MaxDkgId == 2      \* dkg ids carried by inbound messages: 1..MaxDkgId
MaxPolyGen == 2    \* resets (polynomial rerolls) explored per run
MaxNonce == 2      \* nonce draws explored per party and run
MaxSignId == 1     \* sign ids carried by inbound messages: 1..MaxSignId
MaxCorrelationId == 2  \* correlation ids tried on a SignShareRequest
MaxPolls == 2      \* envelopes the relay hands to the signer per run
MaxSigners == 2    \* largest total_signers of a FrostSigner configuration
MaxTicks == 3      \* commands the ping thread sends per run

VARIABLES
    total,          \* SigningRound.total
    threshold,      \* SigningRound.threshold
    signer_id,      \* SigningRound.signer.signer_id
    parties,        \* ids of SigningRound.signer.frost_signer.parties, in Vec order
    state,          \* SigningRound.state
    dkg_id,         \* SigningRound.dkg_id
    dkg_public_id,  \* SigningRound.dkg_public_id
    sign_id,        \* SigningRound.sign_id
    sign_nonce_id,  \* SigningRound.sign_nonce_id
    commitments,    \* SigningRound.commitments : party_id -> PolyCommitment
    shares,         \* SigningRound.shares : key_id -> (party id -> Scalar)
    public_nonces,  \* SigningRound.public_nonces
    poly_gen,       \* generation of the parties' polynomials (reset_polys rerolls)
    nonce,          \* each owned party's current nonce: the number of its draw
    op,             \* history: the match arm of the last process call
    pre_state,      \* history: state when that call began
    mid_state,      \* history: state right after the dispatch of that call
    moves,          \* history: the move_to calls of that call, [from, to, ok]
    out,            \* the Vec returned by the last process call
    result,         \* "Ok" | "Err" | "Panic" for the last call; "None" before
    net,            \* session driver: messages in flight to this signer
    delivered,      \* session driver: the messages delivered, in order
    sent,           \* session driver: everything the signer emitted, in order
    in_queue,       \* HttpNetListen.in_queue: the envelopes polled and not yet taken
    polls,          \* signer shell: the number of envelopes enqueued so far
    taken,          \* signer shell: serial numbers of the envelopes next_message returned
    shell_op,       \* signer shell: its last operation
    shell_env,      \* signer shell: the envelope its last iteration took
    accepted,       \* signer shell: whether that envelope's authenticator verified
    send_res,       \* signer shell: results of the send_message calls of that iteration
    session_log,    \* history: DkgPublicEnd / DkgPrivateBegin / DkgEnd of this DKG session
    channel,        \* coordinator: the commands sent and not yet received
    ticks,          \* coordinator: the number of commands the ping thread sent
    run_result,     \* coordinator: what run returned; "Running" before
    handled,        \* coordinator: serial numbers of the commands received, in order
    calls           \* coordinator: the calls made while handling the last command

vars == <<total, threshold, signer_id, parties, state, dkg_id, dkg_public_id,
          sign_id, sign_nonce_id, commitments, shares, public_nonces, poly_gen,
          nonce, op, pre_state, mid_state, moves, out, result, net, delivered,
          sent, in_queue, polls, taken, shell_op, shell_env, accepted, send_res,
          session_log, channel, ticks, run_result, handled, calls>>

config == <<total, threshold, signer_id, parties>>

driver == <<net, delivered, sent>>

round == <<state, dkg_id, dkg_public_id, sign_id, sign_nonce_id, commitments,
           shares, public_nonces, poly_gen, nonce, op, pre_state, mid_state,
           moves, out, result>>

shell == <<in_queue, polls, taken, shell_op, shell_env, accepted, send_res>>

history == <<session_log>>

coord == <<channel, ticks, run_result, handled, calls>>

\* The coordinator when run has created its channel and no command was sent.
CoordIdle ==
    /\ channel = <<>>
    /\ ticks = 0
    /\ run_result = "Running"
    /\ handled = <<>>
    /\ calls = <<>>

\* The signer shell before its first poll.
ShellIdle ==
    /\ in_queue = <<>>
    /\ polls = 0
    /\ taken = <<>>
    /\ shell_op = "None"
    /\ shell_env = [id |-> 0]
    /\ accepted = FALSE
    /\ send_res = <<>>

\* ------------------------------------------------------------ state machine
States == {"Idle", "DkgPublicDistribute", "DkgPublicGather",
           "DkgPrivateDistribute", "DkgPrivateGather", "SignGather", "Signed"}

\* Mutant of can_move_to: a DKG may be restarted from any state.
can_move_to_restart_anywhere(prev_state, s) ==
    CASE s = "Idle" -> TRUE
      [] s = "DkgPublicDistribute" -> TRUE
      [] s = "DkgPublicGather" -> prev_state = "DkgPublicDistribute"
      [] s = "DkgPrivateDistribute" -> prev_state = "DkgPublicGather"
      [] s = "DkgPrivateGather" -> prev_state = "DkgPrivateDistribute"
      [] s = "SignGather" -> prev_state = "Idle"
      [] s = "Signed" -> prev_state = "SignGather"

\* Mutant of can_move_to: DkgPrivateGather may be entered from any state.
can_move_to_gather_anywhere(prev_state, s) ==
    CASE s = "Idle" -> TRUE
      [] s = "DkgPublicDistribute" ->
            \/ prev_state = "Idle"
            \/ prev_state = "DkgPublicGather"
            \/ prev_state = "DkgPrivateDistribute"
      [] s = "DkgPublicGather" -> prev_state = "DkgPublicDistribute"
      [] s = "DkgPrivateDistribute" -> prev_state = "DkgPublicGather"
      [] s = "DkgPrivateGather" -> TRUE
      [] s = "SignGather" -> prev_state = "Idle"
      [] s = "Signed" -> prev_state = "SignGather"

can_move_to(prev_state, s) ==
    CASE s = "Idle" -> TRUE
      [] s = "DkgPublicDistribute" ->
            \/ prev_state = "Idle"
            \/ prev_state = "DkgPublicGather"
            \/ prev_state = "DkgPrivateDistribute"
      [] s = "DkgPublicGather" -> prev_state = "DkgPublicDistribute"
      [] s = "DkgPrivateDistribute" -> prev_state = "DkgPublicGather"
      [] s = "DkgPrivateGather" -> prev_state = "DkgPrivateDistribute"
      [] s = "SignGather" -> prev_state = "Idle"
      [] s = "Signed" -> prev_state = "SignGather"

\* A round is the record of the mutable fields; handlers map round to round.
Round ==
    [state |-> state, dkg_id |-> dkg_id, dkg_public_id |-> dkg_public_id,
     sign_id |-> sign_id, sign_nonce_id |-> sign_nonce_id,
     commitments |-> commitments, shares |-> shares,
     public_nonces |-> public_nonces, poly_gen |-> poly_gen,
     nonce |-> nonce, moves |-> <<>>]

\* move_to: Ok changes the state, Err(BadStateChange) leaves it alone.  The
\* call is logged in r.moves.
Move(from, to, ok) == [from |-> from, to |-> to, ok |-> ok]

move_to(r, s) ==
    IF can_move_to(r.state, s)
    THEN [ok |-> TRUE,
          r |-> [r EXCEPT !.state = s,
                          !.moves = Append(@, Move(r.state, s, TRUE))]]
    ELSE [ok |-> FALSE,
          r |-> [r EXCEPT !.moves = Append(@, Move(r.state, s, FALSE))]]

\* ---------------------------------------------------------------- values
EmptyMap == [x \in {} |-> 0]

Range(f) == {f[x] : x \in DOMAIN f}

PartySet == Range(parties)

\* Party ids an inbound message may carry, configured for this signer or not.
PartyIds == 0..(MaxTotal - 1)

DkgIds == 1..MaxDkgId

SignIds == 1..MaxSignId

Poly(p, g) == <<p, g>>

\* party.get_poly_commitment: a commitment to the party's current polynomial.
get_poly_commitment(r, p) == [poly |-> Poly(p, r.poly_gen), ok |-> TRUE]

\* party.get_shares: the polynomial evaluated at every party id 0..total-1.
get_shares(r, p) == [i \in 0..(total - 1) |-> Poly(p, r.poly_gen)]

\* self.commitments.clone().into_values().collect(): values in key order.
RECURSIVE into_values(_)
into_values(m) ==
    IF DOMAIN m = {} THEN <<>>
    ELSE LET k == CHOOSE x \in DOMAIN m : \A y \in DOMAIN m : x <= y
         IN <<m[k]>> \o into_values([x \in DOMAIN m \ {k} |-> m[x]])

\* BTreeMap::insert / HashMap::insert: keyed, last write wins.
insert(m, k, v) == [x \in DOMAIN m \cup {k} |-> IF x = k THEN v ELSE m[x]]

\* ---------------------------------------------------------------- messages
DkgBeginMsg(d) == [type |-> "DkgBegin", dkg_id |-> d]

DkgPrivateBeginMsg(d) == [type |-> "DkgPrivateBegin", dkg_id |-> d]

DkgPublicShareMsg(d, dp, p, c) ==
    [type |-> "DkgPublicShare", dkg_id |-> d, dkg_public_id |-> dp,
     party_id |-> p, public_share |-> c]

DkgPrivateSharesMsg(d, k, s) ==
    [type |-> "DkgPrivateShares", dkg_id |-> d, key_id |-> k, private_shares |-> s]

DkgEndMsg(t, d, s, ok, why) ==
    [type |-> t, dkg_id |-> d, signer_id |-> s,
     status |-> IF ok THEN "Success" ELSE "Failure", reason |-> why]

NonceRequestMsg(d, s, n) ==
    [type |-> "NonceRequest", dkg_id |-> d, sign_id |-> s, sign_nonce_id |-> n]

NonceResponseMsg(d, s, n, p, nc) ==
    [type |-> "NonceResponse", dkg_id |-> d, sign_id |-> s, sign_nonce_id |-> n,
     party_id |-> p, nonce |-> nc]

SignShareRequestMsg(d, s, c, p, ns, m) ==
    [type |-> "SignShareRequest", dkg_id |-> d, sign_id |-> s, correlation_id |-> c,
     party_id |-> p, nonces |-> ns, message |-> m]

SignShareResponseMsg(d, s, c, p, sh) ==
    [type |-> "SignShareResponse", dkg_id |-> d, sign_id |-> s, correlation_id |-> c,
     party_id |-> p, signature_share |-> sh]

\* The tags process does not act on (the `_ => Ok(vec![])` arm).
OtherTags == {"DkgEnd", "DkgPublicEnd", "DkgQuery", "DkgQueryResponse",
              "NonceResponse", "SignShareResponse"}

NoMsg == [type |-> "None"]

Ok(r, msgs) == [res |-> "Ok", r |-> r, out |-> msgs]

Err(r) == [res |-> "Err", r |-> r, out |-> <<>>]

\* ---------------------------------------------------------------- handlers
\* Mutant of reset: the new dkg id is not stored.
reset_keeps_dkg_id(r, d) ==
    [r EXCEPT !.dkg_public_id = 1,
              !.commitments = EmptyMap,
              !.shares = EmptyMap,
              !.public_nonces = <<>>,
              !.poly_gen = r.poly_gen + 1]

\* Mutant of reset: the shares of the last session are kept.
reset_keeps_shares(r, d) ==
    [r EXCEPT !.dkg_id = d,
              !.dkg_public_id = 1,
              !.commitments = EmptyMap,
              !.public_nonces = <<>>,
              !.poly_gen = r.poly_gen + 1]

\* Mutant of reset: the id of the public round counts the resets.
reset_counts_public_id(r, d) ==
    [r EXCEPT !.dkg_id = d,
              !.dkg_public_id = r.dkg_public_id + 1,
              !.commitments = EmptyMap,
              !.shares = EmptyMap,
              !.public_nonces = <<>>,
              !.poly_gen = r.poly_gen + 1]

reset(r, d) ==
    [r EXCEPT !.dkg_id = d,
              !.dkg_public_id = 1,
              !.commitments = EmptyMap,
              !.shares = EmptyMap,
              !.public_nonces = <<>>,
              !.poly_gen = r.poly_gen + 1]

dkg_public_begin(r) ==
    LET msgs == [i \in 1..Len(parties) |->
                    DkgPublicShareMsg(r.dkg_id, r.dkg_public_id, parties[i],
                                      get_poly_commitment(r, parties[i]))]
        mv == move_to(r, "DkgPublicGather")
    IN IF mv.ok THEN Ok(mv.r, msgs) ELSE Err(mv.r)

dkg_begin(r, m) ==
    LET r1 == reset(r, m.dkg_id)
        mv == move_to(r1, "DkgPublicDistribute")
    IN IF mv.ok THEN dkg_public_begin(mv.r) ELSE Err(mv.r)

dkg_private_begin(r) ==
    LET msgs == [i \in 1..Len(parties) |->
                    DkgPrivateSharesMsg(r.dkg_id, parties[i], get_shares(r, parties[i]))]
        mv == move_to(r, "DkgPrivateGather")
    IN IF mv.ok THEN Ok(mv.r, msgs) ELSE Err(mv.r)

\* Mutant of dkg_public_share: a commitment already held for the party stays.
dkg_public_share_first_write_wins(r, m) ==
    IF m.party_id \in DOMAIN r.commitments THEN Ok(r, <<>>)
    ELSE Ok([r EXCEPT !.commitments = insert(r.commitments, m.party_id, m.public_share)],
            <<>>)

dkg_public_share(r, m) ==
    Ok([r EXCEPT !.commitments = insert(r.commitments, m.party_id, m.public_share)],
       <<>>)

\* Mutant of dkg_private_shares: the new map is merged into the map already
\* held for the sender.
dkg_private_shares_merges(r, m) ==
    LET old == IF m.key_id \in DOMAIN r.shares THEN r.shares[m.key_id] ELSE EmptyMap
        new == [i \in DOMAIN old \cup DOMAIN m.private_shares |->
                   IF i \in DOMAIN m.private_shares THEN m.private_shares[i]
                   ELSE old[i]]
    IN Ok([r EXCEPT !.shares = insert(r.shares, m.key_id, new)], <<>>)

dkg_private_shares(r, m) ==
    Ok([r EXCEPT !.shares = insert(r.shares, m.key_id, m.private_shares)], <<>>)

\* Mutant of gen_nonce: the party's nonce is not redrawn.
gen_nonce_keeps_nonce(r, p) == r

\* party.gen_nonce replaces the party's nonce by a fresh draw.
gen_nonce(r, p) ==
    [r EXCEPT !.nonce = [r.nonce EXCEPT ![p] = @ + 1]]

PublicNonce(r, p) == <<p, r.nonce[p]>>

RECURSIVE nonce_request_from(_, _, _, _)
nonce_request_from(r, m, i, msgs) ==
    IF i > Len(parties) THEN Ok(r, msgs)
    ELSE LET p == parties[i]
             r1 == gen_nonce(r, p)
         IN nonce_request_from(r1, m, i + 1,
                Append(msgs, NonceResponseMsg(m.dkg_id, m.sign_id, m.sign_nonce_id,
                                              p, PublicNonce(r1, p))))

nonce_request(r, m) == nonce_request_from(r, m, 1, <<>>)

\* party.sign: the share is a function of the party's key and current nonce,
\* the message and the signers' ids and nonces; the party is not changed.
sign(r, p, message, signer_ids, signer_nonces) ==
    [id |-> p,
     z_i |-> [nonce |-> PublicNonce(r, p), message |-> message,
              signer_ids |-> signer_ids, signer_nonces |-> signer_nonces]]

\* Mutant of sign_share_request: the response carries the sign id where the
\* correlation id belongs.
sign_share_request_sign_id_twice(r, m) ==
    IF m.party_id \in PartySet
    THEN LET signer_ids == [i \in 1..Len(m.nonces) |-> m.nonces[i][1]]
             signer_nonces == [i \in 1..Len(m.nonces) |-> m.nonces[i][2]]
             share == sign(r, m.party_id, m.message, signer_ids, signer_nonces)
         IN Ok(r,
               <<SignShareResponseMsg(m.dkg_id, m.sign_id, m.sign_id,
                                      m.party_id, share)>>)
    ELSE Ok(r, <<>>)

\* Mutant of sign_share_request: a request for a party the signer does not own
\* is served by its first party.
sign_share_request_first_party(r, m) ==
    LET p == IF m.party_id \in PartySet THEN m.party_id ELSE parties[1]
        signer_ids == [i \in 1..Len(m.nonces) |-> m.nonces[i][1]]
        signer_nonces == [i \in 1..Len(m.nonces) |-> m.nonces[i][2]]
        share == sign(r, p, m.message, signer_ids, signer_nonces)
    IN Ok(r,
          <<SignShareResponseMsg(m.dkg_id, m.sign_id, m.correlation_id,
                                 m.party_id, share)>>)

sign_share_request(r, m) ==
    IF m.party_id \in PartySet
    THEN LET signer_ids == [i \in 1..Len(m.nonces) |-> m.nonces[i][1]]
             signer_nonces == [i \in 1..Len(m.nonces) |-> m.nonces[i][2]]
             share == sign(r, m.party_id, m.message, signer_ids, signer_nonces)
         IN Ok(r,
               <<SignShareResponseMsg(m.dkg_id, m.sign_id, m.correlation_id,
                                      m.party_id, share)>>)
    ELSE Ok(r, <<>>)

\* ------------------------------------------------------- progress predicates
\* Mutant of public_shares_done: one commitment short of total.
public_shares_done_one_short(r) ==
    r.state = "DkgPublicGather" /\ Cardinality(DOMAIN r.commitments) + 1 = total

public_shares_done(r) ==
    r.state = "DkgPublicGather" /\ Cardinality(DOMAIN r.commitments) = total

can_dkg_end(r) ==
    /\ r.state = "DkgPrivateGather"
    /\ Cardinality(DOMAIN r.commitments) = total
    /\ Cardinality(DOMAIN r.shares) = total

\* Mutant of dkg_public_ended: the id of the public round in place of the dkg id.
dkg_public_ended_public_id(r) ==
    DkgEndMsg("DkgPublicEnd", r.dkg_public_id, signer_id, TRUE, "")

dkg_public_ended(r) == DkgEndMsg("DkgPublicEnd", r.dkg_id, signer_id, TRUE, "")

\* party.compute_secret(shares, commitments) of the FROST library: "Ok" or the
\* error.  It needs a share from every party id 0..total-1, every commitment's
\* proof to verify, and every share to match the commitment at its index.
compute_secret(p, sh, A) ==
    LET missing_shares == {i \in 0..(total - 1) : i \notin DOMAIN sh}
        bad_ids == {i \in 1..Len(A) : ~A[i].ok}
        bad_shares == {i \in DOMAIN sh : i + 1 > Len(A) \/ sh[i] # A[i + 1].poly}
    IN IF missing_shares # {} THEN "MissingShares"
       ELSE IF bad_ids # {} THEN "BadIds"
       ELSE IF bad_shares # {} THEN "BadShares"
       ELSE "Ok"

\* dkg_ended, party by party in Vec order.  key_shares[&party.id] indexes a
\* HashMap: it panics when the key is absent.
RECURSIVE dkg_ended_from(_, _)
dkg_ended_from(r, i) ==
    IF i > Len(parties)
    THEN [panic |-> FALSE, msg |-> DkgEndMsg("DkgEnd", r.dkg_id, signer_id, TRUE, "")]
    ELSE LET p == parties[i]
         IN IF \E k \in DOMAIN r.shares : p \notin DOMAIN r.shares[k]
            THEN [panic |-> TRUE, msg |-> NoMsg]
            ELSE LET sh == [k \in DOMAIN r.shares |-> r.shares[k][p]]
                     e == compute_secret(p, sh, into_values(r.commitments))
                 IN IF e # "Ok"
                    THEN [panic |-> FALSE,
                          msg |-> DkgEndMsg("DkgEnd", r.dkg_id, signer_id, FALSE, e)]
                    ELSE dkg_ended_from(r, i + 1)

dkg_ended(r) == dkg_ended_from(r, 1)

\* ------------------------------------------------------------------ process
\* Mutant of dispatch: a tag the signer does not act on is an error.
dispatch_rejects_other(r, m) ==
    CASE m.type = "DkgBegin" -> dkg_begin(r, m)
      [] m.type = "DkgPrivateBegin" -> dkg_private_begin(r)
      [] m.type = "DkgPublicShare" -> dkg_public_share(r, m)
      [] m.type = "DkgPrivateShares" -> dkg_private_shares(r, m)
      [] m.type = "SignShareRequest" -> sign_share_request(r, m)
      [] m.type = "NonceRequest" -> nonce_request(r, m)
      [] OTHER -> Err(r)

dispatch(r, m) ==
    CASE m.type = "DkgBegin" -> dkg_begin(r, m)
      [] m.type = "DkgPrivateBegin" -> dkg_private_begin(r)
      [] m.type = "DkgPublicShare" -> dkg_public_share(r, m)
      [] m.type = "DkgPrivateShares" -> dkg_private_shares(r, m)
      [] m.type = "SignShareRequest" -> sign_share_request(r, m)
      [] m.type = "NonceRequest" -> nonce_request(r, m)
      [] OTHER -> Ok(r, <<>>)

\* The arm of `match message` that a message takes.
Arm(m) == IF m.type \in OtherTags THEN "Other" ELSE m.type

\* The `match out_msgs` block of process, applied to the dispatch's result d:
\* [res, r, mid, out] are the result, the round after the call, the state
\* right after the dispatch, and the returned messages.
\* Mutant of the progress block: the predicates are not consulted.
after_dispatch_skips_progress(d) ==
    [res |-> d.res, r |-> d.r, mid |-> d.r.state,
     out |-> IF d.res = "Err" THEN <<>> ELSE d.out]

after_dispatch(d) ==
    LET done(res, r2, o) == [res |-> res, r |-> r2, mid |-> d.r.state, out |-> o]
    IN IF d.res = "Err" THEN done("Err", d.r, <<>>)
       ELSE IF public_shares_done(d.r)
       THEN LET o == Append(d.out, dkg_public_ended(d.r))
                mv == move_to(d.r, "DkgPrivateDistribute")
            IN IF mv.ok THEN done("Ok", mv.r, o) ELSE done("Err", mv.r, <<>>)
       ELSE IF can_dkg_end(d.r)
       THEN LET e == dkg_ended(d.r)
                mv == move_to(d.r, "Idle")
            IN IF e.panic THEN done("Panic", d.r, <<>>)
               ELSE IF mv.ok THEN done("Ok", mv.r, Append(d.out, e.msg))
               ELSE done("Err", mv.r, <<>>)
       ELSE done("Ok", d.r, d.out)

process(r, m) == after_dispatch(dispatch(r, m))

\* One call of process by the signer loop.  A panic ends the process.
Call(m) ==
    /\ result # "Panic"
    /\ \E r \in {Round} : \E d \in {dispatch(r, m)} : \E p \in {after_dispatch(d)} :
          /\ state' = p.r.state
          /\ dkg_id' = p.r.dkg_id
          /\ dkg_public_id' = p.r.dkg_public_id
          /\ sign_id' = p.r.sign_id
          /\ sign_nonce_id' = p.r.sign_nonce_id
          /\ commitments' = p.r.commitments
          /\ shares' = p.r.shares
          /\ public_nonces' = p.r.public_nonces
          /\ poly_gen' = p.r.poly_gen
          /\ nonce' = p.r.nonce
          /\ op' = Arm(m)
          /\ pre_state' = state
          /\ mid_state' = p.mid
          /\ moves' = p.r.moves
          /\ out' = p.out
          /\ result' = p.res
    /\ UNCHANGED config

\* A call with a message from anywhere: the session driver is not involved.
Step(m) == Call(m) /\ UNCHANGED <<driver, shell, history, coord>>

\* ------------------------------------------------------------------- inputs
\* Configurations: a signer owning every party, or only party 0.
FirstN(n) == [i \in 1..n |-> i - 1]

Configs ==
    {[total |-> n, threshold |-> n, signer_id |-> 1, parties |-> FirstN(n)] :
        n \in 1..MaxTotal}
    \cup {[total |-> n, threshold |-> 1, signer_id |-> 1, parties |-> <<0>>] :
        n \in 1..MaxTotal}

\* Commitments a peer may send for party p: its own, valid or not.
PublicShares(p) == {[poly |-> Poly(p, poly_gen), ok |-> b] : b \in BOOLEAN}

\* Share maps a peer may send as party k: to every party, or to none.
PrivateShares(k) == {[i \in 0..(total - 1) |-> Poly(k, poly_gen)], EmptyMap}

Messages == {"hello", "world"}

\* The nonce list of a request: the owned parties' current public nonces.
CurrentNonces == [i \in 1..Len(parties) |-> <<parties[i], <<parties[i], nonce[parties[i]]>>>>]

InitRound ==
    /\ \E c \in Configs :
          /\ total = c.total
          /\ threshold = c.threshold
          /\ signer_id = c.signer_id
          /\ parties = c.parties
    /\ state = "Idle"
    /\ dkg_id = 1
    /\ dkg_public_id = 1
    /\ sign_id = 1
    /\ sign_nonce_id = 1
    /\ commitments = EmptyMap
    /\ shares = EmptyMap
    /\ public_nonces = <<>>
    /\ poly_gen = 0
    /\ nonce = [p \in Range(parties) |-> 0]
    /\ op = "None"
    /\ pre_state = "Idle"
    /\ mid_state = "Idle"
    /\ moves = <<>>
    /\ out = <<>>
    /\ result = "None"

Init ==
    /\ InitRound
    /\ net = {} /\ delivered = <<>> /\ sent = <<>>
    /\ ShellIdle
    /\ session_log = <<>>
    /\ CoordIdle

RecvDkgBegin ==
    /\ poly_gen < MaxPolyGen
    /\ \E d \in DkgIds : Step(DkgBeginMsg(d))

RecvDkgPrivateBegin == \E d \in DkgIds : Step(DkgPrivateBeginMsg(d))

RecvDkgPublicShare ==
    \E d \in DkgIds, p \in PartyIds : \E c \in PublicShares(p) :
        Step(DkgPublicShareMsg(d, 1, p, c))

RecvDkgPrivateShares ==
    \E d \in DkgIds, k \in PartyIds : \E s \in PrivateShares(k) :
        Step(DkgPrivateSharesMsg(d, k, s))

RecvNonceRequest ==
    /\ \A p \in PartySet : nonce[p] < MaxNonce
    /\ \E d \in DkgIds, s \in SignIds : Step(NonceRequestMsg(d, s, 1))

RecvSignShareRequest ==
    \E d \in DkgIds, s \in SignIds, p \in PartyIds, m \in Messages :
        Step(SignShareRequestMsg(d, s, s, p, CurrentNonces, m))

RecvOther == \E t \in OtherTags : Step([type |-> t])

Next ==
    \/ RecvDkgBegin
    \/ RecvDkgPrivateBegin
    \/ RecvDkgPublicShare
    \/ RecvDkgPrivateShares
    \/ RecvNonceRequest
    \/ RecvSignShareRequest
    \/ RecvOther

Spec == Init /\ [][Next]_vars

\* ----------------------------------------------------------- session driver
\* One DKG session d as the relay delivers it to this signer: the coordinator's
\* DkgBegin and DkgPrivateBegin and the peers' shares are in flight from the
\* start, the signer's own shares loop back once emitted, and each message is
\* delivered exactly once, in any order.
Peers == (0..(total - 1)) \ PartySet

PeerPublicShare(d, p) == DkgPublicShareMsg(d, 1, p, [poly |-> Poly(p, 1), ok |-> TRUE])

PeerPrivateShares(d, p) ==
    DkgPrivateSharesMsg(d, p, [i \in 0..(total - 1) |-> Poly(p, 1)])

SessionInit ==
    /\ InitRound
    /\ \E d \in DkgIds :
          net = {DkgBeginMsg(d), DkgPrivateBeginMsg(d)}
                \cup {PeerPublicShare(d, p) : p \in Peers}
                \cup {PeerPrivateShares(d, p) : p \in Peers}
    /\ delivered = <<>>
    /\ sent = <<>>
    /\ ShellIdle
    /\ session_log = <<>>
    /\ CoordIdle

LoopedBack(o) ==
    {o[i] : i \in {j \in DOMAIN o : o[j].type \in {"DkgPublicShare", "DkgPrivateShares"}}}

Deliver ==
    \E m \in net :
        /\ Call(m)
        /\ net' = (net \ {m}) \cup LoopedBack(out')
        /\ delivered' = Append(delivered, m)
        /\ sent' = sent \o out'
        /\ UNCHANGED <<shell, history, coord>>

SessionNext == Deliver

SessionSpec == SessionInit /\ [][SessionNext]_vars

\* ------------------------------------------------------------------ helpers
Types(q) == [i \in DOMAIN q |-> q[i].type]

Count(q, t) == Cardinality({i \in DOMAIN q : q[i].type = t})

Last(q) == q[Len(q)]

Repeat(t, n) == [i \in 1..n |-> t]

\* ------------------------------------------------------------------- claims

\* The From->To pairs of the transition table.
TransitionTable ==
    {<<s, "Idle">> : s \in States}
    \cup {<<s, "DkgPublicDistribute">> :
            s \in {"Idle", "DkgPublicGather", "DkgPrivateDistribute"}}
    \cup {<<"DkgPublicDistribute", "DkgPublicGather">>,
          <<"DkgPublicGather", "DkgPrivateDistribute">>,
          <<"DkgPrivateDistribute", "DkgPrivateGather">>,
          <<"Idle", "SignGather">>,
          <<"SignGather", "Signed">>}

\* The state a sequence of move_to calls leads to from state s.
RECURSIVE StateAfter(_, _)
StateAfter(s, mv) ==
    IF mv = <<>> THEN s
    ELSE StateAfter(IF mv[1].ok THEN mv[1].to ELSE s, Tail(mv))

\* C1: every change of the round's state made by a process call is a pair of
\* the transition table, the state changes in no other way, and move_to with
\* any other pair fails and leaves the state as it was.
C1_TransitionTable ==
    /\ \A i \in DOMAIN moves :
          /\ moves[i].ok <=> <<moves[i].from, moves[i].to>> \in TransitionTable
          /\ moves[i].from = StateAfter(pre_state, SubSeq(moves, 1, i - 1))
    /\ state = StateAfter(pre_state, moves)
    /\ \A s \in States, t \in States :
          LET mv == move_to([Round EXCEPT !.state = s], t)
          IN /\ mv.ok <=> <<s, t>> \in TransitionTable
             /\ mv.r.state = IF <<s, t>> \in TransitionTable THEN t ELSE s

\* A DkgBegin was refused in DkgPrivateGather, and the state kept.
C1_Witness ==
    /\ op = "DkgBegin"
    /\ pre_state = "DkgPrivateGather"
    /\ moves = <<Move("DkgPrivateGather", "DkgPublicDistribute", FALSE)>>
    /\ result = "Err"
    /\ state = "DkgPrivateGather"

\* The nonce <<party, draw>> a SignShareResponse rests on, and its message.
NonceOf(resp) == resp.signature_share.z_i.nonce

MessageOf(resp) == resp.signature_share.z_i.message

\* C2: a generated nonce signs at most once: the SignShareResponses of two
\* successive calls, for one party and two different messages, never rest on
\* the same nonce drawn by a NonceRequest.
C2_NonceUsedOnce ==
    [][(/\ op = "SignShareRequest" /\ out # <<>>
        /\ op' = "SignShareRequest" /\ out' # <<>>
        /\ out[1].party_id = out'[1].party_id
        /\ MessageOf(out[1]) # MessageOf(out'[1])
        /\ NonceOf(out[1])[2] >= 1)
       => NonceOf(out[1]) # NonceOf(out'[1])]_vars

\* can_dkg_end held right after the dispatch of the last call.
CanDkgEndAfterDispatch ==
    /\ result # "None"
    /\ mid_state = "DkgPrivateGather"
    /\ Cardinality(DOMAIN commitments) = total
    /\ Cardinality(DOMAIN shares) = total

\* compute_secret succeeds for every owned party on the received maps.
AllSecretsComputed ==
    \A p \in PartySet :
        /\ \A k \in DOMAIN shares : p \in DOMAIN shares[k]
        /\ compute_secret(p, [k \in DOMAIN shares |-> shares[k][p]],
                          into_values(commitments)) = "Ok"

\* C3: whenever can_dkg_end holds after the dispatch, the call returns Ok with
\* exactly one DkgEnd, appended last, Success iff every owned party computed
\* its secret, and the round is in Idle.
C3_DkgEndNeverAborts ==
    CanDkgEndAfterDispatch =>
        /\ result = "Ok"
        /\ Count(out, "DkgEnd") = 1
        /\ Last(out).type = "DkgEnd"
        /\ (Last(out).status = "Success") <=> AllSecretsComputed
        /\ state = "Idle"

\* C10: neither aggregate ever holds more than total entries.
C10_AggregatesBounded ==
    /\ Cardinality(DOMAIN commitments) <= total
    /\ Cardinality(DOMAIN shares) <= total

\* The session's dkg id: that of the coordinator's DkgBegin.
SessionId ==
    LET b == CHOOSE m \in net \cup Range(delivered) : m.type = "DkgBegin"
    IN b.dkg_id

\* Exactly DkgBegin and the total DkgPublicShare messages have been delivered.
PublicPhaseDelivered ==
    /\ Len(delivered) = total + 1
    /\ \A i \in DOMAIN delivered : delivered[i].type \in {"DkgBegin", "DkgPublicShare"}

\* C4: whatever the order in which DkgBegin(d) and the total DkgPublicShare
\* messages of session d were delivered, the signer is in DkgPrivateDistribute
\* and has emitted DkgPublicEnd{d, Success}.
C4_ReorderTolerated ==
    PublicPhaseDelivered =>
        /\ state = "DkgPrivateDistribute"
        /\ DkgEndMsg("DkgPublicEnd", SessionId, signer_id, TRUE, "") \in Range(sent)

Moved(from, to) == Move(from, to, TRUE) \in Range(moves)

PublicSharesDoneAfterDispatch ==
    /\ result # "None"
    /\ mid_state = "DkgPublicGather"
    /\ Cardinality(DOMAIN commitments) = total

\* C5: a call moves the round from DkgPublicGather to DkgPrivateDistribute iff
\* after the dispatch state is DkgPublicGather and |commitments| = total, and
\* exactly then one DkgPublicEnd{dkg_id, signer_id, Success} ends the output.
C5_PublicSharesDone ==
    /\ Moved("DkgPublicGather", "DkgPrivateDistribute") <=> PublicSharesDoneAfterDispatch
    /\ IF PublicSharesDoneAfterDispatch
       THEN /\ result = "Ok"
            /\ Count(out, "DkgPublicEnd") = 1
            /\ Last(out) = DkgEndMsg("DkgPublicEnd", dkg_id, signer_id, TRUE, "")
            /\ state = "DkgPrivateDistribute"
       ELSE Count(out, "DkgPublicEnd") = 0

\* The last DkgPublicShare completed the commitments of a two-party round.
C5_Witness ==
    /\ op = "DkgPublicShare"
    /\ total = 2
    /\ pre_state = "DkgPublicGather"
    /\ PublicSharesDoneAfterDispatch
    /\ state = "DkgPrivateDistribute"
    /\ out = <<DkgEndMsg("DkgPublicEnd", dkg_id, signer_id, TRUE, "")>>

\* C6: a call moves the round from DkgPrivateGather to Idle and emits a DkgEnd
\* iff after the dispatch state is DkgPrivateGather and both aggregates hold
\* total entries; otherwise the round stays in DkgPrivateGather and no DkgEnd
\* is emitted.
C6_CanDkgEnd ==
    /\ (Moved("DkgPrivateGather", "Idle") /\ Count(out, "DkgEnd") = 1)
            <=> CanDkgEndAfterDispatch
    /\ (result # "None" /\ mid_state = "DkgPrivateGather" /\ ~CanDkgEndAfterDispatch)
            => (state = "DkgPrivateGather" /\ Count(out, "DkgEnd") = 0)

\* C7: DkgBegin(d) in Idle, DkgPublicGather or DkgPrivateDistribute returns
\* one DkgPublicShare per owned party, in party order, with dkg_id d, and
\* leaves the round in DkgPublicGather; in any other state it returns an
\* error and no message.
C7_DkgBegin ==
    [][\A d \in DkgIds :
          (op' = "DkgBegin" /\ Step(DkgBeginMsg(d))) =>
             IF state \in {"Idle", "DkgPublicGather", "DkgPrivateDistribute"}
             THEN /\ result' = "Ok"
                  /\ Len(out') = Len(parties)
                  /\ \A i \in DOMAIN out' :
                        /\ out'[i].type = "DkgPublicShare"
                        /\ out'[i].dkg_id = d
                        /\ out'[i].party_id = parties[i]
                  /\ state' = "DkgPublicGather"
             ELSE /\ result' = "Err"
                  /\ Last(moves') = Move(state, "DkgPublicDistribute", FALSE)
                  /\ out' = <<>>]_vars

\* A second DkgBegin, with another id, restarted a two-party signer that was
\* waiting for DkgPrivateBegin.
C7_Witness ==
    /\ op = "DkgBegin"
    /\ pre_state = "DkgPrivateDistribute"
    /\ state = "DkgPublicGather"
    /\ Len(out) = 2
    /\ out[2].party_id = 1
    /\ out[2].dkg_id = 2

\* C8: DkgPrivateBegin in DkgPrivateDistribute returns one DkgPrivateShares per
\* owned party, in party order, and moves the round to DkgPrivateGather; in
\* every other state it returns an error, no DkgPrivateShares, and the state
\* is unchanged.
C8_DkgPrivateBegin ==
    op = "DkgPrivateBegin" =>
        IF pre_state = "DkgPrivateDistribute"
        THEN /\ Moved("DkgPrivateDistribute", "DkgPrivateGather")
             /\ Count(out, "DkgPrivateShares") = Len(parties)
             /\ \A i \in DOMAIN parties :
                   /\ out[i].type = "DkgPrivateShares"
                   /\ out[i].key_id = parties[i]
        ELSE /\ result = "Err"
             /\ Last(moves) = Move(pre_state, "DkgPrivateGather", FALSE)
             /\ Count(out, "DkgPrivateShares") = 0
             /\ state = pre_state

\* The signer owns every party and the session ran in the order of the happy
\* path: DkgBegin, its public shares, DkgPrivateBegin, its private shares.
HappyPathDelivered ==
    /\ parties = FirstN(total)
    /\ Types(delivered) = <<"DkgBegin">> \o Repeat("DkgPublicShare", total)
                          \o <<"DkgPrivateBegin">> \o Repeat("DkgPrivateShares", total)

\* C9: on the happy path the signer emitted, in this order, its DkgPublicShare
\* messages, one DkgPublicEnd{d, Success}, its DkgPrivateShares messages and
\* one DkgEnd{d}, all with dkg_id d, and it is in Idle.
C9_HappyPath ==
    HappyPathDelivered =>
        /\ Types(sent) = Repeat("DkgPublicShare", total) \o <<"DkgPublicEnd">>
                         \o Repeat("DkgPrivateShares", total) \o <<"DkgEnd">>
        /\ \A i \in DOMAIN sent : sent[i].dkg_id = SessionId
        /\ sent[total + 1].status = "Success"
        /\ state = "Idle"

\* The happy path of a signer owning two parties, run to its end.
C9_Witness ==
    /\ HappyPathDelivered
    /\ total = 2
    /\ net = {}
    /\ Len(sent) = 6
    /\ state = "Idle"

\* The DkgPublicShare and DkgPrivateShares messages a peer may send.
PublicShareInputs ==
    UNION {{DkgPublicShareMsg(d, 1, p, c) : d \in DkgIds, c \in PublicShares(p)} :
              p \in PartyIds}

PrivateSharesInputs ==
    UNION {{DkgPrivateSharesMsg(d, k, s) : d \in DkgIds, s \in PrivateShares(k)} :
              k \in PartyIds}

\* C11: during a DKG session, a DkgPublicShare or DkgPrivateShares whose dkg_id
\* is not the round's is discarded: the call leaves commitments and shares as
\* they were and emits no DkgPublicEnd and no DkgEnd.
C11_StaleDkgIdDiscarded ==
    [][\A m \in PublicShareInputs \cup PrivateSharesInputs :
          (op' = m.type /\ state # "Idle" /\ m.dkg_id # dkg_id /\ Step(m))
          => /\ commitments' = commitments
             /\ shares' = shares
             /\ Count(out', "DkgPublicEnd") = 0
             /\ Count(out', "DkgEnd") = 0]_vars

\* The triple a NonceResponse answers for.
NonceTriple(resp) == <<resp.sign_id, resp.sign_nonce_id, resp.party_id>>

\* C12: at most one NonceResponse per (sign_id, sign_nonce_id, party_id): two
\* successive NonceRequest calls never both emit a NonceResponse for the same
\* triple.
C12_OneNonceResponsePerTriple ==
    [][(op = "NonceRequest" /\ op' = "NonceRequest")
       => \A i \in DOMAIN out, j \in DOMAIN out' :
             NonceTriple(out[i]) # NonceTriple(out'[j])]_vars

\* The NonceRequest messages the coordinator may send.
NonceRequestInputs == {NonceRequestMsg(d, s, 1) : d \in DkgIds, s \in SignIds}

\* C13: in every state of a live signer, processing a NonceRequest returns one
\* NonceResponse per owned party, in party order and nothing else, each with
\* the party's id, the request's dkg_id, sign_id and sign_nonce_id, and the
\* party's nonce, which the call has drawn anew.
C13_NonceRequest ==
    result # "Panic" =>
        \A m \in NonceRequestInputs : \E p \in {process(Round, m)} :
            /\ p.res = "Ok"
            /\ Len(p.out) = Len(parties)
            /\ \A i \in DOMAIN p.out :
                  /\ p.r.nonce[parties[i]] = nonce[parties[i]] + 1
                  /\ p.out[i] = NonceResponseMsg(m.dkg_id, m.sign_id, m.sign_nonce_id,
                                                 parties[i], PublicNonce(p.r, parties[i]))

\* A signer owning two parties answered its second NonceRequest, in the middle
\* of a DKG.
C13_Witness ==
    /\ op = "NonceRequest"
    /\ result = "Ok"
    /\ state = "DkgPrivateGather"
    /\ Types(out) = <<"NonceResponse", "NonceResponse">>
    /\ out[2].party_id = 1
    /\ out[2].nonce = <<1, 2>>

\* C14: a NonceRequest processed in Idle leaves the round in SignGather, and a
\* SignShareResponse is emitted only from SignGather, leaving the round in
\* Signed.
C14_SigningStates ==
    /\ (op = "NonceRequest" /\ pre_state = "Idle" /\ result = "Ok")
       => state = "SignGather"
    /\ (op = "SignShareRequest" /\ Count(out, "SignShareResponse") > 0)
       => (pre_state = "SignGather" /\ state = "Signed")

\* The SignShareRequest messages the coordinator may send: any correlation
\* id, the owned parties' current nonces in party order or reversed.
CorrelationIds == 1..MaxCorrelationId

NonceLists ==
    {CurrentNonces,
     [i \in 1..Len(parties) |-> CurrentNonces[Len(parties) + 1 - i]]}

SignShareRequestInputs ==
    {SignShareRequestMsg(d, s, c, p, ns, m) :
        d \in DkgIds, s \in SignIds, c \in CorrelationIds, p \in PartyIds,
        ns \in NonceLists, m \in Messages}

\* C15: in every state of a live signer, processing a SignShareRequest for an
\* owned party returns exactly one message, the SignShareResponse with the
\* request's dkg_id, sign_id, correlation_id and party_id and the party's share
\* over the request's message and its ids and nonces in the order given.
C15_SignShareRequestOwned ==
    result # "Panic" =>
        \A m \in SignShareRequestInputs :
            m.party_id \in PartySet =>
                \E p \in {process(Round, m)} :
                    /\ p.res = "Ok"
                    /\ p.out =
                         <<SignShareResponseMsg(
                              m.dkg_id, m.sign_id, m.correlation_id, m.party_id,
                              sign(Round, m.party_id, m.message,
                                   [i \in DOMAIN m.nonces |-> m.nonces[i][1]],
                                   [i \in DOMAIN m.nonces |-> m.nonces[i][2]]))>>

\* A signer owning two parties served a SignShareRequest for its party 1 with
\* a nonce it drew, in the middle of a DKG.
C15_Witness ==
    /\ op = "SignShareRequest"
    /\ result = "Ok"
    /\ state = "DkgPublicGather"
    /\ Types(out) = <<"SignShareResponse">>
    /\ out[1].party_id = 1
    /\ NonceOf(out[1]) = <<1, 1>>
    /\ out[1].signature_share.z_i.signer_ids = <<0, 1>>

\* C16: in every state of a live signer, processing a SignShareRequest for a
\* party the signer does not own returns Ok with no message and leaves the
\* whole round as it was.
C16_SignShareRequestUnowned ==
    result # "Panic" =>
        \A m \in SignShareRequestInputs :
            m.party_id \notin PartySet =>
                \E p \in {process(Round, m)} :
                    /\ p.res = "Ok"
                    /\ p.out = <<>>
                    /\ p.r = Round

\* A signer owning party 0 of two dropped a SignShareRequest in the middle of
\* a DKG, with a commitment held.
C16_Witness ==
    /\ op = "SignShareRequest"
    /\ parties = <<0>>
    /\ total = 2
    /\ result = "Ok"
    /\ out = <<>>
    /\ state = "DkgPublicGather"
    /\ DOMAIN commitments = {1}

\* C17: in every state of a live signer, processing a message of a tag the
\* signer does not act on returns Ok with no message and leaves the whole
\* round as it was.
C17_OtherTagsNoOp ==
    result # "Panic" =>
        \A t \in OtherTags : \E p \in {process(Round, [type |-> t])} :
            /\ p.res = "Ok"
            /\ p.out = <<>>
            /\ p.r = Round

\* Such a message was processed in DkgPrivateGather with every commitment
\* held and the shares still missing.
C17_Witness ==
    /\ op = "Other"
    /\ result = "Ok"
    /\ out = <<>>
    /\ state = "DkgPrivateGather"
    /\ Cardinality(DOMAIN commitments) = total
    /\ shares = EmptyMap

\* The signer loop feeding a sequence of messages to process, starting from
\* the outcome e = [res, r] of the last call; a panic ends the process, and
\* nothing is processed after it.
RECURSIVE Feed(_, _)
Feed(e, seq) ==
    IF seq = <<>> \/ e.res = "Panic" THEN e
    ELSE LET p == process([e.r EXCEPT !.moves = <<>>], seq[1])
         IN Feed([res |-> p.res, r |-> p.r], Tail(seq))

\* A whole DKG session d sent afresh: DkgBegin, one valid public share per
\* party, DkgPrivateBegin, one full share map per party.
FreshSession(d) ==
    <<DkgBeginMsg(d)>>
    \o [i \in 1..total |->
          DkgPublicShareMsg(d, 1, i - 1, [poly |-> Poly(i - 1, 0), ok |-> TRUE])]
    \o <<DkgPrivateBeginMsg(d)>>
    \o [i \in 1..total |->
          DkgPrivateSharesMsg(d, i - 1, [j \in 0..(total - 1) |-> Poly(i - 1, 0)])]

\* C18: no poison state: from every reachable state some finite sequence of
\* inbound messages (none at all, or a DKG session sent afresh) brings the
\* round to Idle.
C18_NoPoisonState ==
    \E seq \in {<<>>} \cup {FreshSession(d) : d \in DkgIds} :
        \E e \in {Feed([res |-> result, r |-> Round], seq)} :
            e.res # "Panic" /\ e.r.state = "Idle"

\* C19: the count conditions of the progress predicates are monotone: during
\* a DKG session, once |commitments| = total (resp. |shares| = total) holds,
\* processing a further DkgPublicShare or DkgPrivateShares keeps it true.
C19_ProgressMonotone ==
    [][(state # "Idle" /\ op' \in {"DkgPublicShare", "DkgPrivateShares"})
       => /\ Cardinality(DOMAIN commitments) = total
             => Cardinality(DOMAIN commitments') = total
          /\ Cardinality(DOMAIN shares) = total
             => Cardinality(DOMAIN shares') = total]_vars

\* C20: in every state of a live signer, processing a DkgPublicShare makes
\* commitments[party_id] its public_share and leaves the other entries alone,
\* so |commitments| grows by one iff party_id was absent; processing the same
\* message again leaves commitments unchanged.
C20_PublicShareInsert ==
    result # "Panic" =>
        \A m \in PublicShareInputs : \E p \in {process(Round, m)} :
            /\ DOMAIN p.r.commitments = DOMAIN commitments \cup {m.party_id}
            /\ p.r.commitments[m.party_id] = m.public_share
            /\ \A k \in DOMAIN commitments \ {m.party_id} :
                  p.r.commitments[k] = commitments[k]
            /\ Cardinality(DOMAIN p.r.commitments) =
                  Cardinality(DOMAIN commitments)
                  + (IF m.party_id \in DOMAIN commitments THEN 0 ELSE 1)
            /\ p.res # "Panic" =>
                  process([p.r EXCEPT !.moves = <<>>], m).r.commitments
                     = p.r.commitments

\* A DkgPublicShare was processed for a party whose commitment was already
\* held: both commitments of two were in when the call came.
C20_Witness ==
    /\ op = "DkgPublicShare"
    /\ result = "Ok"
    /\ total = 2
    /\ pre_state = "DkgPrivateDistribute"
    /\ DOMAIN commitments = {0, 1}
    /\ ~commitments[0].ok

\* C21: in every state of a live signer, processing a DkgPrivateShares makes
\* shares[key_id] the sender's whole map, in place of any map held for that
\* key_id, and leaves the other senders' entries alone, so |shares| grows by
\* one iff key_id was absent; the handler emits no message.
C21_PrivateSharesInsert ==
    result # "Panic" =>
        \A m \in PrivateSharesInputs : \E p \in {process(Round, m)} :
            /\ DOMAIN p.r.shares = DOMAIN shares \cup {m.key_id}
            /\ p.r.shares[m.key_id] = m.private_shares
            /\ \A k \in DOMAIN shares \ {m.key_id} : p.r.shares[k] = shares[k]
            /\ Cardinality(DOMAIN p.r.shares) =
                  Cardinality(DOMAIN shares)
                  + (IF m.key_id \in DOMAIN shares THEN 0 ELSE 1)
            /\ dkg_private_shares(Round, m).out = <<>>

\* An empty map from sender 1 took the place of the full map held for it,
\* next to sender 0's.
C21_Witness ==
    /\ op = "DkgPrivateShares"
    /\ result = "Ok"
    /\ out = <<>>
    /\ DOMAIN shares = {0, 1}
    /\ shares[1] = EmptyMap
    /\ DOMAIN shares[0] = 0..(total - 1)
    /\ state = "DkgPrivateGather"

\* C22: in every state of a live signer, once a DkgBegin(d) is accepted the
\* round holds dkg_id = d and dkg_public_id = 1 and its commitments, shares
\* and public_nonces are empty: nothing accumulated before survives.
C22_DkgBeginClears ==
    result # "Panic" =>
        \A d \in DkgIds : \E p \in {process(Round, DkgBeginMsg(d))} :
            p.res = "Ok" =>
                /\ p.r.dkg_id = d
                /\ p.r.dkg_public_id = 1
                /\ p.r.commitments = EmptyMap
                /\ p.r.shares = EmptyMap
                /\ p.r.public_nonces = <<>>

\* A DkgBegin(2) was accepted in DkgPrivateDistribute, where every commitment
\* of the session before was held.
C22_Witness ==
    /\ op = "DkgBegin"
    /\ result = "Ok"
    /\ pre_state = "DkgPrivateDistribute"
    /\ dkg_id = 2
    /\ commitments = EmptyMap
    /\ shares = EmptyMap

\* The aggregate state of a round.
Aggregates(r) ==
    <<r.dkg_id, r.dkg_public_id, r.commitments, r.shares, r.public_nonces>>

\* C23: reset is idempotent on the aggregate state: for every reachable round
\* and every id d, reset(d) twice leaves the same dkg_id, dkg_public_id,
\* commitments, shares and public_nonces as reset(d) once, and reset changes
\* neither state nor sign_id nor sign_nonce_id.
C23_ResetIdempotent ==
    \A d \in DkgIds :
        \E r1 \in {reset(Round, d)} : \E r2 \in {reset(r1, d)} :
            /\ Aggregates(r2) = Aggregates(r1)
            /\ \A r \in {r1, r2} :
                  /\ r.state = state
                  /\ r.sign_id = sign_id
                  /\ r.sign_nonce_id = sign_nonce_id

\* The second DkgBegin(1) in a row has reset a round that the first had reset.
C23_Witness ==
    /\ op = "DkgBegin"
    /\ pre_state = "DkgPublicGather"
    /\ poly_gen = 2
    /\ dkg_id = 1
    /\ commitments = EmptyMap

\* C24: every message a signer emits echoes the session ids of the message
\* that triggered it: a DkgPublicShare the dkg_id of the DkgBegin, a
\* DkgPrivateShares the dkg_id of the DkgPrivateBegin, a NonceResponse the
\* dkg_id and sign_id of the NonceRequest, a SignShareResponse the dkg_id and
\* sign_id of the SignShareRequest.
C24_IdsEchoed ==
    [][\A m \in {DkgBeginMsg(d) : d \in DkgIds}
              \cup {DkgPrivateBeginMsg(d) : d \in DkgIds}
              \cup NonceRequestInputs \cup SignShareRequestInputs :
          (op' = m.type /\ Step(m))
          => \A i \in DOMAIN out' :
                /\ out'[i].type \in {"DkgPublicShare", "DkgPrivateShares",
                                     "NonceResponse", "SignShareResponse"}
                   => out'[i].dkg_id = m.dkg_id
                /\ out'[i].type \in {"NonceResponse", "SignShareResponse"}
                   => out'[i].sign_id = m.sign_id]_vars

\* The party ids of the configured party set.
ConfiguredIds == 0..(total - 1)

\* The party id an inbound message refers to.
PartyRef(m) == IF m.type = "DkgPrivateShares" THEN m.key_id ELSE m.party_id

\* C25: an inbound DkgPublicShare, DkgPrivateShares or SignShareRequest that
\* names a party outside the configured set is rejected and dropped: the call
\* returns an error, emits nothing, and leaves commitments, shares and state
\* as they were.
C25_InvalidPartyIdRejected ==
    [][\A m \in PublicShareInputs \cup PrivateSharesInputs
              \cup SignShareRequestInputs :
          (op' = m.type /\ PartyRef(m) \notin ConfiguredIds /\ Step(m))
          => /\ result' = "Err"
             /\ out' = <<>>
             /\ commitments' = commitments
             /\ shares' = shares
             /\ state' = state]_vars

\* ------------------------------------------------------------ message codec
\* The bytes one hasher.update call feeds to the hasher.
Chunk(v) == ToString(v)

\* The orders in which a message's HashMap can be iterated: any order of the
\* keys of private_shares; a message without a HashMap has the empty order.
IterOrders(m) ==
    IF m.type = "DkgPrivateShares"
    THEN {o \in [1..Cardinality(DOMAIN m.private_shares) -> DOMAIN m.private_shares] :
             \A i, j \in DOMAIN o : i # j => o[i] # o[j]}
    ELSE {<<>>}

\* The (id, share) pairs of private_shares as hashed under iteration order o.
RECURSIVE SharesChunks(_, _)
SharesChunks(ps, o) ==
    IF o = <<>> THEN <<>>
    ELSE <<Chunk(o[1]), Chunk(ps[o[1]])>> \o SharesChunks(ps, Tail(o))

\* The (id, D, E) triples of a nonce list, in list order.
RECURSIVE NoncesChunks(_)
NoncesChunks(ns) ==
    IF ns = <<>> THEN <<>>
    ELSE <<Chunk(ns[1][1]), Chunk(ns[1][2])>> \o NoncesChunks(Tail(ns))

\* Signable::hash of each message struct: the chunks fed to SHA-256, in
\* order.  SHA-256 is taken to be collision free, so the digest is named by
\* its input.  DkgBegin and DkgPrivateBegin wrap the same struct DkgBegin,
\* DkgEnd and DkgPublicEnd the same struct DkgEnd.
hash(m, order) ==
    CASE m.type \in {"DkgBegin", "DkgPrivateBegin"} ->
            <<"DKG_BEGIN", Chunk(m.dkg_id)>>
      [] m.type \in {"DkgEnd", "DkgPublicEnd"} ->
            <<"DKG_END", Chunk(m.dkg_id), Chunk(m.signer_id)>>
      [] m.type = "DkgQuery" -> <<"DKG_QUERY">>
      [] m.type = "DkgPublicShare" ->
            <<"DKG_PUBLIC_SHARE", Chunk(m.dkg_id), Chunk(m.dkg_public_id),
              Chunk(m.party_id), Chunk(m.public_share.poly)>>
      [] m.type = "DkgPrivateShares" ->
            <<"DKG_PRIVATE_SHARES", Chunk(m.dkg_id), Chunk(m.key_id)>>
            \o SharesChunks(m.private_shares, order)
      [] m.type = "NonceRequest" ->
            <<"NONCE_REQUEST", Chunk(m.dkg_id), Chunk(m.sign_id),
              Chunk(m.sign_nonce_id)>>
      [] m.type = "NonceResponse" ->
            <<"NONCE_RESPONSE", Chunk(m.dkg_id), Chunk(m.sign_id),
              Chunk(m.sign_nonce_id), Chunk(m.party_id), Chunk(m.nonce)>>
      [] m.type = "SignShareRequest" ->
            <<"SIGNATURE_SHARE_REQUEST", Chunk(m.dkg_id), Chunk(m.sign_id),
              Chunk(m.correlation_id), Chunk(m.party_id)>>
            \o NoncesChunks(m.nonces) \o <<Chunk(m.message)>>
      [] m.type = "SignShareResponse" ->
            <<"SIGNATURE_SHARE_RESPONSE", Chunk(m.dkg_id), Chunk(m.sign_id),
              Chunk(m.correlation_id), Chunk(m.party_id),
              Chunk(m.signature_share.id), Chunk(m.signature_share.z_i)>>

\* Authenticator bytes: an ECDSA signature of a digest under a key, or bytes
\* that are no signature of anything (all zeros, or bytes that do not parse).
Zeros == [kind |-> "zeros"]

Garbage == [kind |-> "garbage"]

\* Signable::sign: the signature of the message's digest under private_key.
Signable_sign(m, order, private_key) ==
    [kind |-> "signature", key |-> private_key, digest |-> hash(m, order)]

\* Mutant of Signable_verify: bytes that do not parse as a signature pass.
Signable_verify_passes_unparsed(m, order, signature, public_key) ==
    IF signature.kind # "signature" THEN TRUE
    ELSE signature.key = public_key /\ signature.digest = hash(m, order)

\* Signable::verify: false when the bytes do not parse as a signature, else
\* whether the signature is one of the message's digest under public_key (a
\* key pair is named by its owner).
Signable_verify(m, order, signature, public_key) ==
    IF signature.kind # "signature" THEN FALSE
    ELSE signature.key = public_key /\ signature.digest = hash(m, order)

\* ---------------------------------------------------------- relay transport
\* An envelope is a Message {msg, sig}; id is the serial number of its
\* arrival, which names the envelope and is not on the wire.
Envelope(i, m, s) == [id |-> i, msg |-> m, sig |-> s]

NoEnvelope == [id |-> 0]

\* What ureq::get(url).call() can come back with: a response with a status
\* and a body that does or does not decode as a Message, or an error (the
\* transport failed, or the status is an error status).
Response(status, decodes, e) ==
    [kind |-> "response", status |-> status, decodes |-> decodes, env |-> e]

CallError(why) == [kind |-> "error", why |-> why]

\* Mutant of poll: the body of any response is enqueued, whatever its status.
poll_any_status(q, resp) ==
    IF resp.kind = "response" /\ resp.decodes THEN Append(q, resp.env) ELSE q

\* HttpNetListen::poll: the queue after the call.  poll returns nothing.
poll(q, resp) ==
    IF resp.kind = "response" /\ resp.status = 200 /\ resp.decodes
    THEN Append(q, resp.env)
    ELSE q

\* Mutant of next_message: the tail is returned and left in the queue.
next_message_peeks(q) ==
    IF q = <<>> THEN [ret |-> NoEnvelope, q |-> q]
    ELSE [ret |-> q[Len(q)], q |-> q]

\* HttpNetListen::next_message: Vec::pop, [ret, q] are the returned Option
\* (NoEnvelope is None) and the queue after the call.
next_message(q) ==
    IF q = <<>> THEN [ret |-> NoEnvelope, q |-> q]
    ELSE [ret |-> q[Len(q)], q |-> SubSeq(q, 1, Len(q) - 1)]

\* HttpNet::send_message under one outcome of the environment: [res, posts]
\* are the result and the number of POST requests issued.
SendOutcomes == {"Sent", "EncodeFails", "PostFails"}

send_message_retries(q, e, outcome) ==
    CASE outcome = "EncodeFails" ->
            [res |-> "SerializationError", posts |-> 0, q |-> q]
      [] outcome = "PostFails" -> [res |-> "Ok", posts |-> 2, q |-> q]
      [] outcome = "Sent" -> [res |-> "Ok", posts |-> 1, q |-> q]

send_message(q, e, outcome) ==
    CASE outcome = "EncodeFails" ->
            [res |-> "SerializationError", posts |-> 0, q |-> q]
      [] outcome = "PostFails" -> [res |-> "NetworkError", posts |-> 1, q |-> q]
      [] outcome = "Sent" -> [res |-> "Ok", posts |-> 1, q |-> q]

\* -------------------------------------------------------------- signer shell
\* The messages the relay may hand to the signer, and who each claims to be
\* from: the coordinator for the commands, a peer for the shares.
ShellMsgs ==
    {DkgBeginMsg(1), DkgPrivateBeginMsg(1), [type |-> "DkgQuery"],
     DkgPrivateSharesMsg(1, 1, [i \in 0..1 |-> Poly(1, 1)])}

PurportedSender(m) ==
    IF m.type \in {"DkgBegin", "DkgPrivateBegin", "DkgQuery", "NonceRequest",
                   "SignShareRequest"}
    THEN "coordinator" ELSE "peer"

\* The authenticators an envelope may carry: all zeros, bytes that do not
\* parse, the sender's signature of some message of the session (the
\* envelope's own or another one's), or an outsider's signature.
ShellSigs(m) ==
    {Zeros, Garbage}
    \cup UNION {{Signable_sign(m2, o, PurportedSender(m2)) : o \in IterOrders(m2)} :
                   m2 \in ShellMsgs}
    \cup {Signable_sign(m, o, "intruder") : o \in IterOrders(m)}

Responses(i) ==
    UNION {{Response(st, TRUE, Envelope(i, m, s)) : st \in {200, 204}, s \in ShellSigs(m)} :
              m \in ShellMsgs}
    \cup {Response(st, FALSE, NoEnvelope) : st \in {200, 204}}
    \cup {CallError(w) : w \in {"transport", "status 404"}}

\* transport.poll(signer_id), at any time.
ShellPoll ==
    /\ result # "Panic"
    /\ polls < MaxPolls
    /\ \E resp \in Responses(polls + 1) :
          /\ in_queue' = poll(in_queue, resp)
          /\ polls' = IF in_queue' = in_queue THEN polls ELSE polls + 1
    /\ shell_op' = "poll"
    /\ UNCHANGED <<config, round, driver, taken, shell_env, accepted, send_res,
                   history, coord>>

\* One iteration of the inner loop of the shell: take an envelope, drop it if
\* its authenticator does not verify under the purported sender's key, else
\* process its payload and send each output, going on when a send fails.
ShellHandle ==
    /\ result # "Panic"
    /\ in_queue # <<>>
    /\ \E nm \in {next_message(in_queue)} : \E o \in IterOrders(nm.ret.msg) :
          /\ in_queue' = nm.q
          /\ taken' = Append(taken, nm.ret.id)
          /\ shell_env' = nm.ret
          /\ accepted' = Signable_verify(nm.ret.msg, o, nm.ret.sig,
                                         PurportedSender(nm.ret.msg))
          /\ IF accepted'
             THEN /\ Call(nm.ret.msg)
                  /\ \E oc \in [DOMAIN out' -> SendOutcomes] :
                        send_res' = [i \in DOMAIN out' |->
                                        send_message(in_queue', out'[i], oc[i]).res]
             ELSE /\ send_res' = <<>>
                  /\ UNCHANGED <<config, round>>
    /\ shell_op' = "handle"
    /\ UNCHANGED <<driver, polls, history, coord>>

\* next_message on an empty queue: None, and the shell goes to sleep.
ShellSleep ==
    /\ result # "Panic"
    /\ in_queue = <<>>
    /\ shell_op # "sleep"
    /\ in_queue' = next_message(in_queue).q
    /\ shell_env' = next_message(in_queue).ret
    /\ shell_op' = "sleep"
    /\ UNCHANGED <<config, round, driver, polls, taken, accepted, send_res,
                   history, coord>>

ShellNext == ShellPoll \/ ShellHandle \/ ShellSleep

ShellSpec == Init /\ [][ShellNext]_vars

\* The envelope's authenticator is no signature of its message by the
\* purported sender: it does not parse, or it is under another key, or it is
\* of another digest.
BadAuthenticator(e) ==
    \/ e.sig.kind # "signature"
    \/ e.sig.key # PurportedSender(e.msg)
    \/ \A o \in IterOrders(e.msg) : e.sig.digest # hash(e.msg, o)

\* C26: an envelope whose authenticator fails verification under the
\* purported sender's key is dropped before process is called: the round is
\* as it was and nothing is sent in response.
C26_BadAuthenticatorDropped ==
    [][(shell_op' = "handle" /\ BadAuthenticator(shell_env'))
       => (UNCHANGED round /\ send_res' = <<>> /\ ~accepted')]_vars

\* A DkgBegin under an all-zero authenticator was taken and dropped after a
\* DkgBegin had been accepted: the round is where that one left it.
C26_Witness ==
    /\ shell_op = "handle"
    /\ shell_env.msg = DkgBeginMsg(1)
    /\ shell_env.sig = Zeros
    /\ ~accepted
    /\ taken = <<2, 1>>
    /\ op = "DkgBegin"
    /\ state = "DkgPublicGather"
    /\ poly_gen = 1

\* C27: the hash input covers the message kind and every field, so an
\* authenticator made for one message never verifies for another: an
\* envelope the shell accepted carries no signature made for a message
\* other than its own.
C27_AuthenticatorBindsMessage ==
    (shell_op = "handle" /\ accepted) =>
        \A m2 \in ShellMsgs :
            (\E o2 \in IterOrders(m2) :
                shell_env.sig = Signable_sign(m2, o2, PurportedSender(m2)))
            => m2 = shell_env.msg

\* C28: the hash of a DkgPrivateShares is a function of its content only, so
\* the sender's authenticator verifies at every receiver: an envelope that
\* carries its sender's signature of its own message is accepted.
C28_HashOfContentOnly ==
    (/\ shell_op = "handle"
     /\ shell_env.msg.type = "DkgPrivateShares"
     /\ \E o \in IterOrders(shell_env.msg) :
           shell_env.sig = Signable_sign(shell_env.msg, o,
                                         PurportedSender(shell_env.msg)))
    => accepted

\* C29: next_message returns None iff the queue is empty, and leaves it
\* alone then; else it removes and returns the tail, the most recently
\* enqueued envelope still queued; no envelope is returned twice.
C29_NextMessage ==
    /\ \E nm \in {next_message(in_queue)} :
          /\ nm.ret = NoEnvelope <=> in_queue = <<>>
          /\ in_queue = <<>> => nm.q = in_queue
          /\ in_queue # <<>> =>
                /\ nm.ret = in_queue[Len(in_queue)]
                /\ nm.q = SubSeq(in_queue, 1, Len(in_queue) - 1)
                /\ \A i \in DOMAIN in_queue : in_queue[i].id <= nm.ret.id
    /\ \A i, j \in DOMAIN taken : i # j => taken[i] # taken[j]
    /\ \A i \in DOMAIN in_queue : \A j \in DOMAIN taken : in_queue[i].id # taken[j]

\* Two envelopes were queued; the second came out first, then the first.
C29_Witness ==
    /\ shell_op = "handle"
    /\ taken = <<2, 1>>
    /\ in_queue = <<>>
    /\ shell_env.id = 1

\* C30: poll appends exactly one envelope iff the relay answered with status
\* 200 and a body that decodes; otherwise the queue is unchanged; what was
\* queued stays in place and in order.
C30_Poll ==
    \A resp \in Responses(polls + 1) : \E q \in {poll(in_queue, resp)} :
        /\ SubSeq(q, 1, Len(in_queue)) = in_queue
        /\ Len(q) = Len(in_queue)
                    + (IF resp.kind = "response" /\ resp.status = 200 /\ resp.decodes
                       THEN 1 ELSE 0)
        /\ Len(q) > Len(in_queue) => q[Len(q)] = resp.env

\* A poll has put a second envelope behind the one already queued.
C30_Witness ==
    /\ shell_op = "poll"
    /\ Len(in_queue) = 2
    /\ in_queue[1].id = 1
    /\ in_queue[2].id = 2

\* C31: send_message issues at most one POST per call and never retries; it
\* returns SerializationError when the encoding fails (before any POST),
\* NetworkError when the POST fails and Ok otherwise, and the inbound queue
\* is as it was in every case.
C31_SendMessage ==
    \A m \in ShellMsgs : \A outcome \in SendOutcomes :
        \E r \in {send_message(in_queue, Envelope(0, m, Zeros), outcome)} :
            /\ r.posts <= 1
            /\ r.q = in_queue
            /\ r.res = "Ok" <=> outcome = "Sent"
            /\ outcome = "EncodeFails" => r.res = "SerializationError" /\ r.posts = 0
            /\ outcome = "PostFails" => r.res = "NetworkError" /\ r.posts = 1

\* The shell sent the two responses to an accepted DkgBegin while another
\* envelope was still queued: the first POST failed, the second went out.
C31_Witness ==
    /\ shell_op = "handle"
    /\ accepted
    /\ op = "DkgBegin"
    /\ Len(out) = 2
    /\ send_res = <<"NetworkError", "Ok">>
    /\ Len(in_queue) = 1

\* ------------------------------------------------------------- construction
\* The panic of a failed assert!.
AssertFailed == [panic |-> "assertion failed"]

\* SigningRound::new: the configuration part of the round it builds, or a
\* panic of its assertion.
new(threshold_, total_, signer_id_, key_ids) ==
    IF ~(threshold_ <= total_) THEN AssertFailed
    ELSE [total |-> total_, threshold |-> threshold_, signer_id |-> signer_id_,
          parties |-> key_ids]

\* The FrostSigner values a round may be built from: signer ids around the
\* valid range, key counts and thresholds on both sides of each other.
FrostSigners ==
    [signer_id : 0..(MaxSigners + 1), total_signers : 1..MaxSigners,
     total_keys : 1..(2 * MaxSigners), keys_threshold : 1..(2 * MaxSigners + 1)]

from_counts_from_one(signer) ==
    IF ~(signer.signer_id > 0 /\ signer.signer_id <= signer.total_signers)
    THEN AssertFailed
    ELSE IF ~(signer.keys_threshold <= signer.total_keys) THEN AssertFailed
    ELSE [total |-> signer.total_keys, threshold |-> signer.keys_threshold,
          signer_id |-> signer.signer_id,
          parties |-> <<signer.signer_id * 2 - 1, signer.signer_id * 2>>]

\* impl From<&FrostSigner> for SigningRound.
from(signer) ==
    IF ~(signer.signer_id > 0 /\ signer.signer_id <= signer.total_signers)
    THEN AssertFailed
    ELSE IF ~(signer.keys_threshold <= signer.total_keys) THEN AssertFailed
    ELSE [total |-> signer.total_keys, threshold |-> signer.keys_threshold,
          signer_id |-> signer.signer_id,
          parties |-> <<signer.signer_id * 2 - 2, signer.signer_id * 2 - 1>>]

Owned(c) == {c.parties[i] : i \in DOMAIN c.parties}

\* C33: a round built from a signer with id s in 1..total_signers owns
\* exactly the parties 2s-2 and 2s-1; the owned sets of distinct signers are
\* disjoint and together are 0..2*total_signers-1; the construction panics
\* for s = 0, s > total_signers or keys_threshold > total_keys.
C33_OwnedParties ==
    /\ \A fs \in FrostSigners :
          from(fs) = new(threshold, total, signer_id, parties)
          => PartySet = {2 * signer_id - 2, 2 * signer_id - 1}
    /\ \A fs \in FrostSigners : \E c \in {from(fs)} :
          IF fs.signer_id = 0 \/ fs.signer_id > fs.total_signers
             \/ fs.keys_threshold > fs.total_keys
          THEN c = AssertFailed
          ELSE /\ c # AssertFailed
               /\ Owned(c) = {2 * fs.signer_id - 2, 2 * fs.signer_id - 1}
               /\ c.signer_id = fs.signer_id
    /\ \A n \in 1..MaxSigners :
          LET built(s) == from([signer_id |-> s, total_signers |-> n,
                                total_keys |-> 2 * n, keys_threshold |-> n])
          IN /\ \A s, t \in 1..n : s # t => Owned(built(s)) \cap Owned(built(t)) = {}
             /\ UNION {Owned(built(s)) : s \in 1..n} = 0..(2 * n - 1)

\* A round built from signer 1 of 1 with two keys has answered DkgBegin with
\* the public shares of its parties 0 and 1.
C33_Witness ==
    /\ [total |-> total, threshold |-> threshold, signer_id |-> signer_id,
        parties |-> parties]
       = from([signer_id |-> 1, total_signers |-> 1, total_keys |-> 2,
               keys_threshold |-> 2])
    /\ op = "DkgBegin"
    /\ {out[i].party_id : i \in DOMAIN out} = {0, 1}

\* C34: the round's dkg_id never decreases over process calls, whatever
\* DkgBegin messages arrive, late or replayed.
C34_DkgIdMonotone == [][dkg_id' >= dkg_id]_vars

\* C35: a process call that returns an error leaves the round as it was:
\* state, dkg_id, dkg_public_id, commitments, shares and public_nonces are
\* what they were before the call.
C35_ErrorLeavesRound ==
    [][result' = "Err" =>
          /\ state' = state
          /\ dkg_id' = dkg_id
          /\ dkg_public_id' = dkg_public_id
          /\ commitments' = commitments
          /\ shares' = shares
          /\ public_nonces' = public_nonces]_vars

\* C36: between the process calls of a live signer neither progress
\* predicate holds and the round is never in DkgPublicDistribute: in
\* DkgPublicGather fewer than total commitments are held, and in
\* DkgPrivateGather the commitments or the shares are not total in number.
C36_NoPendingProgress ==
    result # "Panic" =>
        /\ state # "DkgPublicDistribute"
        /\ ~public_shares_done(Round)
        /\ ~can_dkg_end(Round)
        /\ state = "DkgPublicGather" => Cardinality(DOMAIN commitments) < total
        /\ state = "DkgPrivateGather" =>
              \/ Cardinality(DOMAIN commitments) # total
              \/ Cardinality(DOMAIN shares) # total

\* The round rests in DkgPrivateGather with every commitment held and one
\* share map short of total, after a DkgPrivateShares was processed.
C36_Witness ==
    /\ result = "Ok"
    /\ op = "DkgPrivateShares"
    /\ state = "DkgPrivateGather"
    /\ total = 2
    /\ Cardinality(DOMAIN commitments) = total
    /\ Cardinality(DOMAIN shares) = total - 1

\* --------------------------------------------------------- DKG session log
\* The DKG messages as the signer receives them, in any order and any number
\* of times, with the log of what the current session has seen: an accepted
\* DkgBegin opens a new session and its log.
EndTags(o) == SelectSeq([i \in DOMAIN o |-> o[i].type],
                        LAMBDA t : t \in {"DkgPublicEnd", "DkgEnd"})

Logged(m) ==
    /\ Call(m)
    /\ session_log' =
          IF m.type = "DkgBegin" /\ result' = "Ok" THEN EndTags(out')
          ELSE session_log
               \o (IF m.type = "DkgPrivateBegin" /\ result' = "Ok"
                   THEN <<"DkgPrivateBegin">> ELSE <<>>)
               \o EndTags(out')
    /\ UNCHANGED <<driver, shell, coord>>

LoggedDkgBegin ==
    /\ poly_gen < MaxPolyGen
    /\ \E d \in DkgIds : Logged(DkgBeginMsg(d))

LoggedDkgPrivateBegin == \E d \in DkgIds : Logged(DkgPrivateBeginMsg(d))

LoggedDkgPublicShare ==
    \E d \in DkgIds, p \in PartyIds : \E c \in PublicShares(p) :
        Logged(DkgPublicShareMsg(d, 1, p, c))

LoggedDkgPrivateShares ==
    \E d \in DkgIds, k \in PartyIds : \E s \in PrivateShares(k) :
        Logged(DkgPrivateSharesMsg(d, k, s))

DkgNext ==
    \/ LoggedDkgBegin
    \/ LoggedDkgPrivateBegin
    \/ LoggedDkgPublicShare
    \/ LoggedDkgPrivateShares

DkgSpec == Init /\ [][DkgNext]_vars

\* C37: a DKG session sees at most one DkgPublicEnd and at most one DkgEnd;
\* its DkgEnd comes after its DkgPublicEnd and after an accepted
\* DkgPrivateBegin; one call emits at most one of the two, as the last
\* element of its output.
C37_OneEndPerSession ==
    /\ Len(SelectSeq(session_log, LAMBDA t : t = "DkgPublicEnd")) <= 1
    /\ Len(SelectSeq(session_log, LAMBDA t : t = "DkgEnd")) <= 1
    /\ \A k \in DOMAIN session_log :
          session_log[k] = "DkgEnd" =>
              /\ \E i \in 1..(k - 1) : session_log[i] = "DkgPublicEnd"
              /\ \E j \in 1..(k - 1) : session_log[j] = "DkgPrivateBegin"
    /\ Len(EndTags(out)) <= 1
    /\ \A i \in DOMAIN out :
          out[i].type \in {"DkgPublicEnd", "DkgEnd"} => i = Len(out)

\* A second session ran to its end: public end, private begin, end.
C37_Witness ==
    /\ session_log = <<"DkgPublicEnd", "DkgPrivateBegin", "DkgEnd">>
    /\ state = "Idle"
    /\ poly_gen = 2
    /\ total = 2

\* C38: share maps received before the signer's own DkgPrivateBegin are kept
\* and counted: a DkgPrivateBegin processed in DkgPrivateDistribute with all
\* total share maps present emits the signer's DkgPrivateShares followed by
\* the DkgEnd and leaves the round in Idle.
C38_EarlySharesCounted ==
    (/\ op = "DkgPrivateBegin"
     /\ pre_state = "DkgPrivateDistribute"
     /\ Cardinality(DOMAIN shares) = total)
    => /\ result = "Ok"
       /\ state = "Idle"
       /\ Len(out) = Len(parties) + 1
       /\ \A i \in DOMAIN parties :
             out[i].type = "DkgPrivateShares" /\ out[i].key_id = parties[i]
       /\ Last(out).type = "DkgEnd"

\* -------------------------------------------------------------- coordinator
\* An execution of a piece of the coordinator: the calls it made on its
\* collaborators, each with its outcome, and its result: "Ok", the error it
\* returned, or "Panic".  A piece is the set of its possible executions.
Exec(res, cs) == [res |-> res, calls |-> cs]

\* One fallible call followed by `?`.
Try(call, err) ==
    {Exec("Ok", <<[call |-> call, ok |-> TRUE]>>),
     Exec(err, <<[call |-> call, ok |-> FALSE]>>)}

\* Sequencing: what follows runs only after an Ok.
AndThen(first, rest) ==
    {e \in first : e.res # "Ok"}
    \cup {Exec(r.res, e.calls \o r.calls) : e \in {x \in first : x.res = "Ok"}, r \in rest}

\* StacksCoordinator::bitcoin_node is todo!(); another implementor returns
\* its node.
bitcoin_node ==
    {Exec("Ok", <<[call |-> "bitcoin_node", ok |-> TRUE]>>),
     Exec("Panic", <<[call |-> "bitcoin_node", ok |-> FALSE]>>)}

\* The Bitcoin broadcast: its result is dropped.
bitcoin_broadcast ==
    {Exec("Ok", <<[call |-> "bitcoin_node.broadcast_transaction", ok |-> b]>>) :
        b \in BOOLEAN}

btc_fulfill_peg_out ==
    AndThen(Try("fulfill_peg_out", "PegWalletError"),
    AndThen(Try("get_aggregate_public_key", "FrostCoordinatorError"),
    AndThen(Try("PublicKey::from_slice", "BitcoinSecp256k1"),
    AndThen(Try("taproot_signature_hash", "BitcoinSighash"),
            Try("sign_message", "FrostCoordinatorError")))))

peg_in ==
    AndThen(Try("build_mint_transaction", "PegWalletError"),
            Try("stacks_node.broadcast_transaction", "StacksNodeError"))

\* Mutant of peg_out: the fulfilment is signed and broadcast before the burn.
peg_out_fulfils_first ==
    AndThen(btc_fulfill_peg_out,
    AndThen(bitcoin_node,
    AndThen(bitcoin_broadcast,
    AndThen(Try("build_burn_transaction", "PegWalletError"),
            Try("stacks_node.broadcast_transaction", "StacksNodeError")))))

peg_out ==
    AndThen(Try("build_burn_transaction", "PegWalletError"),
    AndThen(Try("stacks_node.broadcast_transaction", "StacksNodeError"),
    AndThen(btc_fulfill_peg_out,
    AndThen(bitcoin_node, bitcoin_broadcast))))

\* sbtc_op returns an error, None, a peg-in or a peg-out request.
process_queue ==
    AndThen(Try("sbtc_op", "PegQueueError"),
            {Exec("Ok", <<>>)} \cup peg_in \cup peg_out)

\* Mutant of run's loop body: the result of the poll is not looked at.
run_iteration_ignores_poll(cmd) ==
    CASE cmd = "Stop" -> {Exec("Break", <<>>)}
      [] cmd = "Timeout" ->
            {Exec(r.res, e.calls \o r.calls) :
                e \in Try("peg_queue.poll", "PegQueueError"), r \in process_queue}

\* The body of run's loop for the command received.
run_iteration(cmd) ==
    CASE cmd = "Stop" -> {Exec("Break", <<>>)}
      [] cmd = "Timeout" ->
            AndThen(Try("peg_queue.poll", "PegQueueError"), process_queue)

\* poll_ping_thread: the only sender of the channel sends Timeout.
Ping ==
    /\ run_result = "Running"
    /\ ticks < MaxTicks
    /\ ticks' = ticks + 1
    /\ channel' = Append(channel, [cmd |-> "Timeout", id |-> ticks + 1])
    /\ UNCHANGED <<config, round, driver, shell, history, run_result, handled, calls>>

\* One turn of run's loop: receive the oldest command and handle it.
Recv ==
    /\ run_result = "Running"
    /\ channel # <<>>
    /\ channel' = Tail(channel)
    /\ handled' = Append(handled, Head(channel).id)
    /\ \E e \in run_iteration(Head(channel).cmd) :
          /\ calls' = e.calls
          /\ run_result' = CASE e.res = "Ok" -> "Running"
                             [] e.res = "Break" -> "Ok"
                             [] OTHER -> e.res
    /\ UNCHANGED <<config, round, driver, shell, history, ticks>>

CoordNext == Ping \/ Recv

CoordSpec == Init /\ [][CoordNext]_vars

CallsOf(name) == {i \in DOMAIN calls : calls[i].call = name}

\* C39: run handles the Timeout commands one at a time in the order
\* received; for each it polls the peg queue first and runs process_queue,
\* which takes at most one sBTC op, only if the poll succeeded; the first
\* error of either ends the loop and is what run returns, and no later
\* command is handled.
C39_TimeoutHandling ==
    [][/\ handled' = [i \in 1..Len(handled') |-> i]
       /\ run_result # "Running" =>
             handled' = handled /\ calls' = calls /\ run_result' = run_result
       /\ handled' # handled =>
             /\ calls'[1].call = "peg_queue.poll"
             /\ IF calls'[1].ok
                THEN /\ Len(calls') >= 2
                     /\ calls'[2].call = "sbtc_op"
                     /\ Cardinality({i \in DOMAIN calls' : calls'[i].call = "sbtc_op"}) = 1
                     /\ ~ (\E i, j \in DOMAIN calls' :
                              /\ calls'[i].call = "build_mint_transaction"
                              /\ calls'[j].call = "build_burn_transaction")
                ELSE Len(calls') = 1 /\ run_result' = "PegQueueError"
             /\ ~calls'[Len(calls')].ok /\ calls'[Len(calls')].call = "sbtc_op"
                   => run_result' = "PegQueueError"
             /\ run_result' = "Running" =>
                   \A i \in DOMAIN calls' :
                       calls'[i].ok \/ calls'[i].call = "bitcoin_node.broadcast_transaction"
             /\ run_result' \notin {"Running", "Panic"} => channel' = Tail(channel)]_vars

\* The second Timeout was handled after the first: its poll succeeded, the
\* peg-in it took failed to build, and run returned that error with a third
\* command still in the channel.
C39_Witness ==
    /\ handled = <<1, 2>>
    /\ Len(channel) = 1
    /\ run_result = "PegWalletError"
    /\ calls = <<[call |-> "peg_queue.poll", ok |-> TRUE],
                 [call |-> "sbtc_op", ok |-> TRUE],
                 [call |-> "build_mint_transaction", ok |-> FALSE]>>

Before(first, k) == \E i \in 1..(k - 1) : calls[i] = [call |-> first, ok |-> TRUE]

Failed(name) == \E i \in DOMAIN calls : calls[i] = [call |-> name, ok |-> FALSE]

\* C40: peg_out broadcasts the fulfilment to Bitcoin only after the burn was
\* built and broadcast to Stacks and the FROST signature obtained; a failure
\* to build or broadcast the burn means no signing request and no Bitcoin
\* broadcast, and a failure to build or sign the fulfilment is returned
\* without a Bitcoin broadcast.
C40_PegOutOrder ==
    /\ \A k \in CallsOf("bitcoin_node.broadcast_transaction") :
          /\ Before("build_burn_transaction", k)
          /\ Before("stacks_node.broadcast_transaction", k)
          /\ Before("fulfill_peg_out", k)
          /\ Before("sign_message", k)
    /\ \A k \in CallsOf("sign_message") :
          /\ Before("build_burn_transaction", k)
          /\ Before("stacks_node.broadcast_transaction", k)
    /\ (Failed("build_burn_transaction")
        \/ (CallsOf("build_burn_transaction") # {}
            /\ Failed("stacks_node.broadcast_transaction")))
       => /\ CallsOf("sign_message") = {}
          /\ CallsOf("bitcoin_node.broadcast_transaction") = {}
          /\ run_result \in {"PegWalletError", "StacksNodeError"}
    /\ \A name \in {"fulfill_peg_out", "get_aggregate_public_key",
                    "PublicKey::from_slice", "taproot_signature_hash",
                    "sign_message"} :
          Failed(name) =>
              /\ CallsOf("bitcoin_node.broadcast_transaction") = {}
              /\ calls[Len(calls)].call = name
              /\ run_result \in {"PegWalletError", "FrostCoordinatorError",
                                 "BitcoinSecp256k1", "BitcoinSighash"}

\* A peg-out went through: burn built and broadcast, fulfilment built and
\* signed, then the Bitcoin broadcast, and run goes on.
C40_Witness ==
    /\ run_result = "Running"
    /\ Len(calls) = 11
    /\ calls[3] = [call |-> "build_burn_transaction", ok |-> TRUE]
    /\ calls[4] = [call |-> "stacks_node.broadcast_transaction", ok |-> TRUE]
    /\ calls[9] = [call |-> "sign_message", ok |-> TRUE]
    /\ calls[11].call = "bitcoin_node.broadcast_transaction"

====
